---- MODULE Spec2Model ----
(***************************************************************************)
(* A model of src/src/functions.py of ulauncher-obsidian: the vault-aware  *)
(* note search, daily-note resolution, URL building and note mutation.     *)
(*                                                                         *)
(* Text is modelled as a sequence of atoms.  An atom is a fragment of a    *)
(* Python string: "/" (the separator), ".md" (the markdown suffix), "."    *)
(* (a lone dot), " " (a space) and letters.  No atom is a substring of a   *)
(* concatenation of other atoms, so the character-level operations of the  *)
(* source (endswith, replace, partition, lstrip, splitting on "/") act on  *)
(* sequences of atoms exactly as they act on the strings they spell.       *)
(***************************************************************************)
EXTENDS Integers, Sequences, FiniteSets, TLC

VARIABLES pc, call, ret, cfg, fs, scan, hist

vars == <<pc, call, ret, cfg, fs, scan, hist>>

----------------------------------------------------------------------------
(* Strings *)

\* All sequences over alphabet A of length at most n.
StrUpTo(A, n) == UNION {[1..k -> A] : k \in 0..n}

\* str.endswith
EndsWith(s, suf) ==
    /\ Len(s) >= Len(suf)
    /\ SubSeq(s, Len(s) - Len(suf) + 1, Len(s)) = suf

\* str.startswith
StartsWith(s, pre) ==
    /\ Len(s) >= Len(pre)
    /\ SubSeq(s, 1, Len(pre)) = pre

\* s[i:] of Python for 0 <= i (atoms after the first i)
DropFirst(s, i) == IF i >= Len(s) THEN <<>> ELSE SubSeq(s, i + 1, Len(s))

\* s[:i] of Python for 0 <= i (the first i atoms)
TakeFirst(s, i) == IF i >= Len(s) THEN s ELSE SubSeq(s, 1, i)

\* The last i atoms of s (s[-i:] of Python for i > 0).
TakeLast(s, i) == IF i >= Len(s) THEN s ELSE SubSeq(s, Len(s) - i + 1, Len(s))

\* str.find: the least 1-based position where sub occurs in s, 0 when none.
Find(s, sub) ==
    LET hits == {i \in 1..(Len(s) - Len(sub) + 1) :
                    SubSeq(s, i, i + Len(sub) - 1) = sub}
    IN IF hits = {} THEN 0 ELSE CHOOSE i \in hits : \A j \in hits : i <= j

\* str.rfind for a single atom: the greatest position of atom c in s, 0 when none.
RFind(s, c) ==
    LET hits == {i \in 1..Len(s) : s[i] = c}
    IN IF hits = {} THEN 0 ELSE CHOOSE i \in hits : \A j \in hits : i >= j

\* str.replace(old, new) for a non-empty old: non-overlapping occurrences,
\* left to right.
RECURSIVE Replace(_, _, _)
Replace(s, old, new) ==
    LET i == Find(s, old)
    IN IF i = 0 THEN s
       ELSE SubSeq(s, 1, i - 1) \o new
            \o Replace(DropFirst(s, i + Len(old) - 1), old, new)

\* str.lstrip("/")
RECURSIVE LStripSep(_)
LStripSep(s) ==
    IF s # <<>> /\ Head(s) = "/" THEN LStripSep(Tail(s)) ELSE s

\* posixpath.join(a, b)
PathJoin(a, b) ==
    IF b # <<>> /\ Head(b) = "/" THEN b
    ELSE IF a = <<>> \/ a[Len(a)] = "/" THEN a \o b
    ELSE a \o <<"/">> \o b

\* posixpath.basename: what follows the last separator.
Basename(p) == DropFirst(p, RFind(p, "/"))

\* Whether atom c spells a string that starts with a dot.
IsDotAtom(c) == c \in {".", ".md"}

\* posixpath.splitext(p)[0]: cut at the last dot of the last component unless
\* only dots precede it in that component.  The last dot of the string is
\* the first character of the last dot atom.
SplitextRoot(p) ==
    LET sepIndex == RFind(p, "/")
        dots == {i \in 1..Len(p) : IsDotAtom(p[i])}
        dotIndex == IF dots = {} THEN 0
                    ELSE CHOOSE i \in dots : \A j \in dots : i >= j
    IN IF dotIndex > sepIndex
          /\ \E k \in (sepIndex + 1)..(dotIndex - 1) : p[k] # "."
       THEN SubSeq(p, 1, dotIndex - 1)
       ELSE p

----------------------------------------------------------------------------
(* pathlib.PurePosixPath *)

\* s.split("/"): the components between separators, empty ones included.
RECURSIVE SplitSep(_)
SplitSep(s) ==
    LET i == Find(s, <<"/">>)
    IN IF i = 0 THEN <<s>>
       ELSE <<SubSeq(s, 1, i - 1)>> \o SplitSep(DropFirst(s, i))

\* The number of leading separators of s.
RECURSIVE LeadingSeps(_)
LeadingSeps(s) ==
    IF s # <<>> /\ Head(s) = "/" THEN 1 + LeadingSeps(Tail(s)) ELSE 0

\* PurePosixPath(s): the root ("", "/", or "//" for exactly two leading
\* separators) and the components, with empty and "." components dropped.
PathParts(s) ==
    [root  |-> IF LeadingSeps(s) = 0 THEN <<>>
               ELSE IF LeadingSeps(s) = 2 THEN <<"/", "/">>
               ELSE <<"/">>,
     names |-> SelectSeq(SplitSep(s), LAMBDA c : c # <<>> /\ c # <<".">>)]

\* "/".join(names)
RECURSIVE JoinSep(_)
JoinSep(names) ==
    IF names = <<>> THEN <<>>
    ELSE IF Len(names) = 1 THEN names[1]
    ELSE names[1] \o <<"/">> \o JoinSep(Tail(names))

\* PurePosixPath(file).relative_to(vault) followed by str(): the components
\* of file after those of vault, "." when none is left; it raises ValueError
\* when the roots differ or vault's components are no prefix of file's.
RelativeTo(file, vault) ==
    LET f == PathParts(file)
        v == PathParts(vault)
        n == Len(v.names)
    IN IF f.root = v.root /\ Len(f.names) >= n /\ SubSeq(f.names, 1, n) = v.names
       THEN [raised |-> FALSE,
             value  |-> IF Len(f.names) = n THEN <<".">>
                        ELSE JoinSep(SubSeq(f.names, n + 1, Len(f.names)))]
       ELSE [raised |-> TRUE, value |-> <<>>]

----------------------------------------------------------------------------
(* PathResolver: get_name_from_path *)

\* A vault argument left at its default, None.  The source only tests the
\* argument for truth, which None and the empty string both fail.
NoVault == <<>>

\* get_name_from_path(path, exclude_ext, vault)
get_name_from_path(path, exclude_ext, vault) ==
    LET base == IF vault # NoVault
                THEN Replace(LStripSep(Replace(path, vault, <<>>)),
                             <<"/">>, <<" > ">>)
                ELSE Basename(path)
    IN IF exclude_ext THEN SplitextRoot(base) ELSE base

----------------------------------------------------------------------------
(* URLBuilder: generate_url *)

\* urllib.parse.quote(s, safe=""): letters, digits and "_.-~" are kept, every
\* other character is percent-encoded.
QuoteAtom(c) ==
    CASE c = "/" -> "%2F"
      [] c = " " -> "%20"
      [] OTHER   -> c

Quote(s) == [i \in 1..Len(s) |-> QuoteAtom(s[i])]

\* urlencode({"vault": vault_name, "file": file}, quote_via=quote) after
\* "obsidian://" + mode + "?"
UrlOf(mode, vault_name, file) ==
    <<"obsidian://", mode, "?", "vault=">> \o Quote(vault_name)
        \o <<"&", "file=">> \o Quote(file)

\* generate_url(vault, file, mode)
generate_url(vault, file, mode) ==
    LET vault1 == IF EndsWith(vault, <<"/">>)
                  THEN SubSeq(vault, 1, Len(vault) - 1) ELSE vault
        vault_name == get_name_from_path(vault1, FALSE, NoVault)
        file1 == IF ~EndsWith(file, <<".md">>) THEN file \o <<".md">> ELSE file
        relative_file == RelativeTo(file1, vault1)
    IN IF ~relative_file.raised
       THEN UrlOf(mode, vault_name, relative_file.value)
       ELSE LET file2 == IF ~EndsWith(file1, <<".md">>)
                         THEN file1 \o <<".md">> ELSE file1
            IN UrlOf(mode, vault_name, file2)

----------------------------------------------------------------------------
(* Values of the variables a specification does not use *)

Unused == <<>>

----------------------------------------------------------------------------
(* SpecUrl: generate_url applied to every vault path, note identifier and  *)
(* mode within the bounds                                                  *)

MaxUrlVaultLen == 3
MaxUrlFileLen == 3

UrlAtoms == {"/", ".md", ".", "a", " "}

InitUrl ==
    /\ pc = "ready"
    /\ call \in [op    : {"generate_url"},
                 vault : StrUpTo(UrlAtoms, MaxUrlVaultLen),
                 file  : StrUpTo(UrlAtoms, MaxUrlFileLen),
                 mode  : {"open", "new"}]
    /\ ret = Unused
    /\ cfg = Unused
    /\ fs = Unused
    /\ scan = Unused
    /\ hist = Unused

GenerateUrl ==
    /\ pc = "ready"
    /\ call.op = "generate_url"
    /\ ret' = generate_url(call.vault, call.file, call.mode)
    /\ pc' = "done"
    /\ UNCHANGED <<call, cfg, fs, scan, hist>>

NextUrl == GenerateUrl

SpecUrl == InitUrl /\ [][NextUrl]_vars

\* The vault path after one trailing separator is stripped.
C6_Vault == IF call.vault # <<>> /\ call.vault[Len(call.vault)] = "/"
            THEN SubSeq(call.vault, 1, Len(call.vault) - 1) ELSE call.vault

\* The note identifier with ".md" appended when absent.
C6_Norm == IF EndsWith(call.file, <<".md">>) THEN call.file
           ELSE call.file \o <<".md">>

\* The identifier lies under the vault: same root, and the vault's components
\* are a proper prefix of the identifier's.
C6_Under ==
    LET f == PathParts(C6_Norm)
        v == PathParts(C6_Vault)
    IN /\ f.root = v.root
       /\ Len(f.names) > Len(v.names)
       /\ SubSeq(f.names, 1, Len(v.names)) = v.names

\* The file parameter C6 describes.
C6_File ==
    LET f == PathParts(C6_Norm)
        v == PathParts(C6_Vault)
    IN IF C6_Under
       THEN JoinSep(SubSeq(f.names, Len(v.names) + 1, Len(f.names)))
       ELSE C6_Norm

\* C6: for every vault path, note identifier and mode, generate_url returns
\* "obsidian://{mode}?vault={name}&file={file}" with name the basename of the
\* vault path after one trailing separator is stripped and file the
\* percent-encoded ".md"-normalized identifier, relative to the vault when it
\* lies under the vault and itself otherwise; file always ends in ".md".
C6_UrlIsOneOfTwoBranches ==
    pc = "done" =>
        /\ ret = <<"obsidian://", call.mode, "?", "vault=">>
                 \o Quote(Basename(C6_Vault))
                 \o <<"&", "file=">> \o Quote(C6_File)
        /\ EndsWith(C6_File, <<".md">>)
        /\ ret[Len(ret)] = ".md"

\* Whether the normalized identifier names the vault directory itself.
C6_IsVaultPath == PathParts(C6_Norm) = PathParts(C6_Vault)

\* Outside that one case generate_url behaves as C6 describes.
C6_HoldsOffVaultPath ==
    (pc = "done" /\ ~C6_IsVaultPath) => C6_UrlIsOneOfTwoBranches

----------------------------------------------------------------------------
(* SpecName: get_name_from_path applied to every path, vault and           *)
(* exclude_ext within the bounds                                           *)

MaxNamePathLen == 4
MaxNameVaultLen == 2

NameAtoms == {"/", ".md", "a", "b"}

\* A path as the callers pass it: not empty, no empty component, no trailing
\* separator.
WellFormedPath(p) ==
    /\ p # <<>>
    /\ p[Len(p)] # "/"
    /\ \A i \in 1..(Len(p) - 1) : ~(p[i] = "/" /\ p[i + 1] = "/")

NamePaths == {p \in StrUpTo(NameAtoms, MaxNamePathLen) : WellFormedPath(p)}

NameVaults == {v \in StrUpTo(NameAtoms, MaxNameVaultLen) : WellFormedPath(v)}
                  \cup {NoVault}

InitName ==
    /\ pc = "ready"
    /\ call \in [op          : {"get_name_from_path"},
                 path        : NamePaths,
                 vault       : NameVaults,
                 exclude_ext : BOOLEAN]
    /\ ret = Unused
    /\ cfg = Unused
    /\ fs = Unused
    /\ scan = Unused
    /\ hist = Unused

GetNameFromPath ==
    /\ pc = "ready"
    /\ call.op = "get_name_from_path"
    /\ ret' = get_name_from_path(call.path, call.exclude_ext, call.vault)
    /\ pc' = "done"
    /\ UNCHANGED <<call, cfg, fs, scan, hist>>

NextName == GetNameFromPath

SpecName == InitName /\ [][NextName]_vars

\* The path lies under the vault: it starts with the vault path followed by
\* a separator.
C9_Under ==
    /\ call.vault # NoVault
    /\ StartsWith(call.path,
                  IF call.vault[Len(call.vault)] = "/" THEN call.vault
                  ELSE call.vault \o <<"/">>)

\* The path relative to the vault, separators replaced by " > ".
C9_Breadcrumb ==
    LET rel == LStripSep(DropFirst(call.path, Len(call.vault)))
        crumb == [i \in 1..Len(rel) |-> IF rel[i] = "/" THEN " > " ELSE rel[i]]
    IN IF call.exclude_ext THEN SplitextRoot(crumb) ELSE crumb

\* The path and the vault path start differently: no common prefix.
C9_NoCommonPrefix ==
    /\ call.vault # NoVault
    /\ call.path # <<>>
    /\ Head(call.path) # Head(call.vault)

\* The value of the call made without a vault: the OS basename.
C9_BasenameValue ==
    IF call.exclude_ext THEN SplitextRoot(Basename(call.path))
    ELSE Basename(call.path)

\* C9: with a vault supplied, get_name_from_path returns the path relative to
\* the vault with separators replaced by " > " when the path lies under the
\* vault, and the value of the no-vault call (the OS basename, extension
\* stripped when requested) when the path has no common prefix with the vault.
C9_BreadcrumbOrBasename ==
    pc = "done" =>
        /\ C9_Under => ret = C9_Breadcrumb
        /\ C9_NoCommonPrefix => ret = C9_BasenameValue

----------------------------------------------------------------------------
(* FuzzyMatcher: fuzzyfinder *)

\* sorted(scores, key=lambda score: score[0], reverse=True): a stable sort,
\* descending by the first element.  Each element is placed after the
\* elements already placed whose key is greater or equal.
InsertDesc(sorted, t) ==
    LET smaller == {j \in 1..Len(sorted) : sorted[j][1] < t[1]}
        at == IF smaller = {} THEN Len(sorted) + 1
              ELSE CHOOSE j \in smaller : \A k \in smaller : j <= k
    IN SubSeq(sorted, 1, at - 1) \o <<t>> \o SubSeq(sorted, at, Len(sorted))

RECURSIVE SortedDesc(_)
SortedDesc(s) ==
    IF s = <<>> THEN <<>>
    ELSE InsertDesc(SortedDesc(SubSeq(s, 1, Len(s) - 1)), s[Len(s)])

\* The (score, item) pairs of items, in order; get_score(search, name) is
\* the value of score at the display name.
ScoredItems(items, score) ==
    [i \in 1..Len(items) |->
        <<score[get_name_from_path(items[i], TRUE, NoVault)], items[i]>>]

\* fuzzyfinder with the filter "score >= 0.0": zero scores are kept.
fuzzyfinder_keeps_zero(items, score) ==
    SortedDesc(SelectSeq(ScoredItems(items, score), LAMBDA t : t[1] >= 0))

\* fuzzyfinder(search, items), score being get_score(search, _)
fuzzyfinder(items, score) ==
    SortedDesc(SelectSeq(ScoredItems(items, score), LAMBDA t : t[1] > 0))

----------------------------------------------------------------------------
(* SpecRank: fuzzyfinder applied to every candidate list and every score   *)
(* assignment within the bounds                                            *)

MaxItems == 3
MaxScoreLevel == 2

\* Candidate paths; two of them share the display name "a".
RankPaths == {<<"a", ".md">>, <<"d", "/", "a", ".md">>,
              <<"b", ".md">>, <<"d", "/", "c", ".md">>}

RankNames == {get_name_from_path(p, TRUE, NoVault) : p \in RankPaths}

\* The scores get_score may give: 0 is no match, higher is better.
ScoreLevels == 0..MaxScoreLevel

InitRank ==
    /\ pc = "ready"
    /\ call \in [op    : {"fuzzyfinder"},
                 items : StrUpTo(RankPaths, MaxItems),
                 score : [RankNames -> ScoreLevels]]
    /\ ret = Unused
    /\ cfg = Unused
    /\ fs = Unused
    /\ scan = Unused
    /\ hist = Unused

FuzzyFinder ==
    /\ pc = "ready"
    /\ call.op = "fuzzyfinder"
    /\ ret' = fuzzyfinder(call.items, call.score)
    /\ pc' = "done"
    /\ UNCHANGED <<call, cfg, fs, scan, hist>>

NextRank == FuzzyFinder

SpecRank == InitRank /\ [][NextRank]_vars

\* The score of the i-th candidate against its display name.
C7_Score(i) == call.score[SplitextRoot(Basename(call.items[i]))]

\* The candidates of score l, in input order, each with its score.
C7_Level(l) ==
    LET idx == SelectSeq([i \in 1..Len(call.items) |-> i],
                         LAMBDA i : C7_Score(i) = l)
    IN [k \in 1..Len(idx) |-> <<l, call.items[idx[k]]>>]

\* The levels from l down to 1, each in input order.
RECURSIVE C7_FromLevel(_)
C7_FromLevel(l) ==
    IF l <= 0 THEN <<>> ELSE C7_Level(l) \o C7_FromLevel(l - 1)

\* C7: fuzzyfinder returns exactly the candidates whose score against their
\* display name is greater than 0 (none when no candidate matches), ordered
\* by descending score, candidates of equal score in their input order.
C7_RankExactDescendingStable ==
    pc = "done" =>
        /\ ret = C7_FromLevel(MaxScoreLevel)
        /\ \A i \in 1..Len(ret) : ret[i][1] > 0
        /\ \A i, j \in 1..Len(ret) : i < j => ret[i][1] >= ret[j][1]
        /\ (\A i \in 1..Len(call.items) : C7_Score(i) = 0) => ret = <<>>

\* A ranking that drops a candidate, moves a later candidate ahead of an
\* earlier one, and keeps two distinct candidates of equal score.
C7_Witness ==
    /\ pc = "done"
    /\ Len(call.items) = 3
    /\ Len(ret) = 2
    /\ ret[1][1] = ret[2][1]
    /\ ret[1][2] # ret[2][2]
    /\ C7_Score(1) = 0

----------------------------------------------------------------------------
(* Results of calls and contents of files *)

\* A call that returned v, and a call that raised exception e.
Returned(v) == [raised |-> "", value |-> v]
Raised(e) == [raised |-> e, value |-> <<>>]

\* What open() followed by json.load() can meet in a file: the pair raises
\* (the file is missing or unreadable, or is not JSON), or gives a JSON value.
\* A JSON value is null, an array of strings (items), or an object (fields:
\* keys to values).
EmptyFields == [k \in {} |-> <<>>]
Unreadable == [t |-> "unreadable", items |-> <<>>, fields |-> EmptyFields]
JNull == [t |-> "null", items |-> <<>>, fields |-> EmptyFields]
JArray(items) == [t |-> "array", items |-> items, fields |-> EmptyFields]
JObject(fields) == [t |-> "object", items |-> <<>>, fields |-> fields]

\* dict.get(key, default)
DictGet(fields, key, default) ==
    IF key \in DOMAIN fields THEN fields[key] ELSE default

----------------------------------------------------------------------------
(* DailyNoteLocator *)

\* The try/except of the settings readers: the parsed JSON value of the
\* file, or {} when open or json.load raised.
LoadOrEmpty(file) == IF file.t = "unreadable" THEN JObject(EmptyFields) ELSE file

\* The settings of a configuration object: DailySettings(format, folder).
SettingsOf(fields) ==
    LET format == DictGet(fields, "format", "YYYY-MM-DD")
        folder == DictGet(fields, "folder", <<>>)
    IN [format |-> IF format = "" THEN "YYYY-MM-DD" ELSE format,
        folder |-> folder]

\* get_daily_settings(vault), daily being .obsidian/daily-notes.json.  The
\* .get of a value that is no dict raises AttributeError outside the try.
get_daily_settings(daily) ==
    LET daily_notes_config == LoadOrEmpty(daily)
    IN IF daily_notes_config.t # "object" THEN Raised("AttributeError")
       ELSE Returned(SettingsOf(daily_notes_config.fields))

\* get_periodic_settings(vault), periodic being
\* .obsidian/plugins/periodic-notes/data.json.
get_periodic_settings(periodic) ==
    LET config == LoadOrEmpty(periodic)
    IN IF config.t # "object" THEN Raised("AttributeError")
       ELSE LET daily_config == DictGet(config.fields, "daily", JObject(EmptyFields))
            IN IF daily_config.t # "object" THEN Raised("AttributeError")
               ELSE Returned(SettingsOf(daily_config.fields))

\* The keys of an object in the order iteration gives them.
RECURSIVE KeySeq(_)
KeySeq(keys) ==
    IF keys = {} THEN <<>>
    ELSE LET k == CHOOSE x \in keys : TRUE IN <<k>> \o KeySeq(keys \ {k})

\* One "try: plugins += json.load(f) except: pass" of
\* is_obsidian_plugin_enabled: a list adds its items, a dict adds its keys,
\* a value that cannot be iterated (null) raises inside the try and adds
\* nothing, as does a file that cannot be read.
PluginsAdded(plugins, file) ==
    CASE file.t = "array"  -> plugins \o file.items
      [] file.t = "object" -> plugins \o KeySeq(DOMAIN file.fields)
      [] OTHER             -> plugins

\* is_obsidian_plugin_enabled(vault, name), core and community being the two
\* registry files of the vault.
is_obsidian_plugin_enabled(core, community, name) ==
    LET plugins == PluginsAdded(PluginsAdded(<<>>, core), community)
    IN \E i \in 1..Len(plugins) : plugins[i] = name

\* datetime.now().strftime(convert_moment_to_strptime_format(format)): the
\* date of the day, 16 July 2021, in the moment.js format.
FormatDate(format) ==
    CASE format = "YYYY-MM-DD" -> <<"2021-07-16">>
      [] format = "DD-MM-YYYY" -> <<"16-07-2021">>
      [] format = "YYYY/MM-DD" -> <<"2021", "/", "07-16">>
      [] OTHER                 -> <<format>>

\* get_daily_path(vault) for the configuration files c and the set of
\* existing paths.
get_daily_path(vault, c, existing) ==
    LET settings == IF is_obsidian_plugin_enabled(c.core, c.community,
                                                  "periodic-notes")
                    THEN get_periodic_settings(c.periodic)
                    ELSE get_daily_settings(c.daily)
    IN IF settings.raised # "" THEN settings
       ELSE LET date == FormatDate(settings.value.format)
                path == PathJoin(PathJoin(vault, settings.value.folder),
                                 date \o <<".md">>)
            IN Returned([path   |-> path,
                         date   |-> date,
                         folder |-> settings.value.folder,
                         exists |-> path \in existing])

----------------------------------------------------------------------------
(* SpecDaily: the four configuration readers applied to every state of the *)
(* two registry files and the two configuration files within the bounds    *)

MaxRegistryLen == 1

PluginNames == {"periodic-notes", "daily-notes"}

\* A registry file: unreadable, or JSON null, a bare array of identifiers,
\* or an object keyed by identifiers.
RegistryFiles ==
    {Unreadable, JNull}
        \cup {JArray(items) : items \in StrUpTo(PluginNames, MaxRegistryLen)}
        \cup {JObject([k \in {n} |-> JNull]) : n \in PluginNames}

\* A format or a folder key that the object does not have.
NoFormat == "<absent>"
NoFolder == <<"<absent>">>

\* The object with "format" fm and "folder" fd, each possibly absent.
SettingsObject(fm, fd) ==
    JObject([k \in (IF fm = NoFormat THEN {} ELSE {"format"})
                   \cup (IF fd = NoFolder THEN {} ELSE {"folder"})
             |-> IF k = "format" THEN fm ELSE fd])

\* The objects {format?, folder?}.
SettingsObjects ==
    {SettingsObject(fm, fd) : fm \in {NoFormat, "", "DD-MM-YYYY"},
                              fd \in {NoFolder, <<>>, <<"d">>}}

\* A value of an unexpected shape where an object is expected.
NotObjects == {JNull, JArray(<<>>)}

\* .obsidian/daily-notes.json
LegacyFiles == {Unreadable} \cup NotObjects \cup SettingsObjects

\* .obsidian/plugins/periodic-notes/data.json: {daily?: {format?, folder?}}
PeriodicFiles ==
    {Unreadable} \cup NotObjects \cup {JObject(EmptyFields)}
        \cup {JObject([k \in {"daily"} |-> d]) : d \in NotObjects \cup SettingsObjects}

DailyVault == <<"v">>

\* The notes that exist: none, or the daily note of the default settings.
DailyFileSystems ==
    {[p \in {} |-> <<>>],
     [p \in {<<"v", "/", "2021-07-16", ".md">>} |-> <<>>]}

InitDaily ==
    /\ pc = "ready"
    /\ call \in [op : {"is_obsidian_plugin_enabled"}, vault : {DailyVault},
                 name : PluginNames]
           \cup [op : {"get_daily_settings", "get_periodic_settings",
                       "get_daily_path"},
                 vault : {DailyVault}, name : {""}]
    /\ cfg \in [core : RegistryFiles, community : RegistryFiles,
                daily : LegacyFiles, periodic : PeriodicFiles]
    /\ fs \in DailyFileSystems
    /\ ret = Unused
    /\ scan = Unused
    /\ hist = Unused

IsObsidianPluginEnabled ==
    /\ pc = "ready"
    /\ call.op = "is_obsidian_plugin_enabled"
    /\ ret' = Returned(is_obsidian_plugin_enabled(cfg.core, cfg.community,
                                                  call.name))
    /\ pc' = "done"
    /\ UNCHANGED <<call, cfg, fs, scan, hist>>

GetDailySettings ==
    /\ pc = "ready"
    /\ call.op = "get_daily_settings"
    /\ ret' = get_daily_settings(cfg.daily)
    /\ pc' = "done"
    /\ UNCHANGED <<call, cfg, fs, scan, hist>>

GetPeriodicSettings ==
    /\ pc = "ready"
    /\ call.op = "get_periodic_settings"
    /\ ret' = get_periodic_settings(cfg.periodic)
    /\ pc' = "done"
    /\ UNCHANGED <<call, cfg, fs, scan, hist>>

GetDailyPath ==
    /\ pc = "ready"
    /\ call.op = "get_daily_path"
    /\ ret' = get_daily_path(call.vault, cfg, DOMAIN fs)
    /\ pc' = "done"
    /\ UNCHANGED <<call, cfg, fs, scan, hist>>

NextDaily ==
    \/ IsObsidianPluginEnabled
    \/ GetDailySettings
    \/ GetPeriodicSettings
    \/ GetDailyPath

SpecDaily == InitDaily /\ [][NextDaily]_vars

\* The identifiers a registry file lists: the items of a bare array; a file
\* that is unreadable or holds anything else lists none.
C_Listed(file) ==
    IF file.t = "array" THEN {file.items[i] : i \in 1..Len(file.items)} ELSE {}

\* Membership in the union of the two plugin-registry lists.
C_Enabled(name) == name \in C_Listed(cfg.core) \cup C_Listed(cfg.community)

\* The configuration object a file holds; the empty object when the file is
\* unreadable or holds no object.
C_ObjectOf(file) == IF file.t = "object" THEN file.fields ELSE EmptyFields

\* The "daily" object of the periodic-notes configuration, empty when absent.
C_PeriodicDaily ==
    LET top == C_ObjectOf(cfg.periodic)
    IN IF "daily" \in DOMAIN top THEN C_ObjectOf(top["daily"]) ELSE EmptyFields

\* Format and folder of a configuration object with the defaults applied.
C_Format(fields) ==
    IF "format" \in DOMAIN fields /\ fields["format"] # ""
    THEN fields["format"] ELSE "YYYY-MM-DD"

C_Folder(fields) == IF "folder" \in DOMAIN fields THEN fields["folder"] ELSE <<>>

\* The configuration that decides the daily note.
C1_Source == IF C_Enabled("periodic-notes") THEN C_PeriodicDaily
             ELSE C_ObjectOf(cfg.daily)

\* C1: for every vault state get_daily_path takes format and folder from the
\* periodic-notes "daily" configuration when "periodic-notes" is in the union
\* of the two registry lists and from the legacy configuration otherwise;
\* with periodic-notes enabled and its configuration missing, empty or of
\* empty format the result is the default "YYYY-MM-DD" and folder "".
C1_PeriodicPrecedence ==
    (pc = "done" /\ call.op = "get_daily_path") =>
        /\ ret.raised = ""
        /\ ret.value.folder = C_Folder(C1_Source)
        /\ ret.value.date = FormatDate(C_Format(C1_Source))

\* Beside the cases where a reader raises or a registry file holds an object
\* instead of a list, get_daily_path follows the precedence of C1.
C1_HoldsOnWellShapedFiles ==
    (/\ pc = "done"
     /\ call.op = "get_daily_path"
     /\ ret.raised = ""
     /\ cfg.core.t # "object"
     /\ cfg.community.t # "object") =>
        /\ ret.value.folder = C_Folder(C1_Source)
        /\ ret.value.date = FormatDate(C_Format(C1_Source))

\* C2: whatever the state of the two registry files and the two
\* configuration files (missing, unreadable, not JSON, or JSON of an
\* unexpected shape), is_obsidian_plugin_enabled, get_daily_settings,
\* get_periodic_settings and get_daily_path return a value: no error
\* propagates.
C2_ReadsNeverRaise == pc = "done" => ret.raised = ""

\* The second half of C2: a call that returns treats a source that failed or
\* has an unexpected shape as an empty list or an empty object.
C2_FailedSourceCountsAsEmpty ==
    (pc = "done" /\ ret.raised = "") =>
        /\ call.op = "is_obsidian_plugin_enabled" =>
               ret.value = C_Enabled(call.name)
        /\ call.op = "get_daily_settings" =>
               /\ ret.value.format = C_Format(C_ObjectOf(cfg.daily))
               /\ ret.value.folder = C_Folder(C_ObjectOf(cfg.daily))
        /\ call.op = "get_periodic_settings" =>
               /\ ret.value.format = C_Format(C_PeriodicDaily)
               /\ ret.value.folder = C_Folder(C_PeriodicDaily)

----------------------------------------------------------------------------
(* NoteMutator *)

\* The file system maps each existing path to a directory or to a regular
\* file with its content.
Dir == [kind |-> "dir", content |-> <<>>]
File(content) == [kind |-> "file", content |-> content]

\* os.path.isfile
IsFile(files, path) == path \in DOMAIN files /\ files[path].kind = "file"

\* str.rstrip("/")
RECURSIVE RStripSep(_)
RStripSep(s) ==
    IF s # <<>> /\ s[Len(s)] = "/" THEN RStripSep(SubSeq(s, 1, Len(s) - 1)) ELSE s

\* posixpath.dirname: what precedes the last component, trailing separators
\* stripped unless it holds nothing but separators.
Dirname(path) ==
    LET head == SubSeq(path, 1, RFind(path, "/"))
    IN IF \A i \in 1..Len(head) : head[i] = "/" THEN head ELSE RStripSep(head)

\* Why open(path, "w") or open(path, "a") raises, "" when it does not: the
\* path is a directory, or its directory does not exist.  The current
\* directory, "", exists.
OpenError(files, path) ==
    IF path \in DOMAIN files /\ files[path].kind = "dir"
    THEN "IsADirectoryError"
    ELSE IF Dirname(path) # <<>>
            /\ ~(Dirname(path) \in DOMAIN files /\ files[Dirname(path)].kind = "dir")
    THEN "FileNotFoundError"
    ELSE ""

\* files with path set to entry, the path added when it is new.
WithEntry(files, path, entry) ==
    [q \in DOMAIN files \cup {path} |-> IF q = path THEN entry ELSE files[q]]

\* create_note_in_vault without the isfile test: the note is always written.
create_note_always_writes(files, vault, name) ==
    LET path == PathJoin(vault, name \o <<".md">>)
    IN IF OpenError(files, path) # ""
       THEN [ret |-> Raised(OpenError(files, path)), files |-> files]
       ELSE [ret   |-> Returned(path),
             files |-> WithEntry(files, path, File(<<"# ">> \o name))]

\* create_note_in_vault(vault, name): the result and the file system after.
create_note_in_vault(files, vault, name) ==
    LET path == PathJoin(vault, name \o <<".md">>)
    IN IF IsFile(files, path)
       THEN [ret |-> Returned(path), files |-> files]
       ELSE IF OpenError(files, path) # ""
       THEN [ret |-> Raised(OpenError(files, path)), files |-> files]
       ELSE [ret   |-> Returned(path),
             files |-> WithEntry(files, path, File(<<"# ">> \o name))]

\* append_to_note_in_vault(vault, file, content) for the configuration files
\* c: the result and the file system after.  os.linesep is "\n".
append_to_note_in_vault(files, c, vault, file, content) ==
    LET daily == get_daily_path(vault, c, DOMAIN files)
        file1 == IF file = <<>> THEN daily.value.path
                 ELSE IF ~EndsWith(file, <<".md">>) THEN file \o <<".md">>
                 ELSE file
        path == PathJoin(vault, file1)
        before == IF path \in DOMAIN files THEN files[path].content ELSE <<>>
    IN IF file = <<>> /\ daily.raised # ""
       THEN [ret |-> daily, files |-> files]
       ELSE IF OpenError(files, path) # ""
       THEN [ret |-> Raised(OpenError(files, path)), files |-> files]
       ELSE [ret   |-> Returned(<<>>),
             files |-> WithEntry(files, path,
                                 File(before \o <<"\n">> \o content))]

----------------------------------------------------------------------------
(* SpecNotes: sequences of create_note_in_vault and append_to_note_in_vault *)
(* calls on a vault given by a relative or by an absolute path             *)

MaxCalls == 3

\* The vault as a relative path and as an absolute path.
NoteVaults == {<<"v">>, <<"/", "v">>}

NoteNames == {<<"n">>, <<"m">>}

\* The file argument of append: "" is the daily note.
NoteFiles == {<<>>, <<"n">>, <<"n", ".md">>}

NoteContents == {<<"x">>}

\* No configuration at all, and a legacy configuration with a format.
NoteConfigs ==
    {[core |-> Unreadable, community |-> Unreadable,
      daily |-> Unreadable, periodic |-> Unreadable],
     [core |-> Unreadable, community |-> JArray(<<"periodic-notes">>),
      daily |-> Unreadable,
      periodic |-> JObject([k \in {"daily"} |->
                               SettingsObject("DD-MM-YYYY", NoFolder)])]}

\* The vault directories exist; a directory "v" inside the relative vault
\* and a note "n" written earlier may exist.
NoteFileSystems ==
    {[p \in {<<"v">>, <<"/", "v">>} \cup nested \cup DOMAIN old |->
         IF p \in DOMAIN old THEN old[p] ELSE Dir] :
        nested \in {{}, {<<"v", "/", "v">>}},
        old \in {[q \in {} |-> Dir],
                 [q \in {<<"v", "/", "n", ".md">>} |-> File(<<"old">>)]}}

NoHistory == [calls |-> 0, created |-> [k \in {} |-> <<>>]]

InitNotes ==
    /\ pc = "ready"
    /\ call = [op |-> "none", vault |-> <<>>, name |-> <<>>, file |-> <<>>,
               content |-> <<>>]
    /\ ret = Returned(<<>>)
    /\ cfg \in NoteConfigs
    /\ fs \in NoteFileSystems
    /\ scan = Unused
    /\ hist = NoHistory

\* hist.created remembers the path returned by the call that created a note.
CreateNote ==
    /\ pc = "ready"
    /\ hist.calls < MaxCalls
    /\ \E vault \in NoteVaults, name \in NoteNames :
        LET r == create_note_in_vault(fs, vault, name)
            key == <<vault, name>>
        IN /\ call' = [op |-> "create_note_in_vault", vault |-> vault,
                       name |-> name, file |-> <<>>, content |-> <<>>]
           /\ ret' = r.ret
           /\ fs' = r.files
           /\ hist' = [calls   |-> hist.calls + 1,
                       created |-> IF r.files # fs
                                   THEN [k \in DOMAIN hist.created \cup {key} |->
                                            IF k = key THEN r.ret.value
                                            ELSE hist.created[k]]
                                   ELSE hist.created]
    /\ UNCHANGED <<pc, cfg, scan>>

AppendToNote ==
    /\ pc = "ready"
    /\ hist.calls < MaxCalls
    /\ \E vault \in NoteVaults, file \in NoteFiles, content \in NoteContents :
        LET r == append_to_note_in_vault(fs, cfg, vault, file, content)
        IN /\ call' = [op |-> "append_to_note_in_vault", vault |-> vault,
                       name |-> <<>>, file |-> file, content |-> content]
           /\ ret' = r.ret
           /\ fs' = r.files
           /\ hist' = [hist EXCEPT !.calls = hist.calls + 1]
    /\ UNCHANGED <<pc, cfg, scan>>

NextNotes == CreateNote \/ AppendToNote

SpecNotes == InitNotes /\ [][NextNotes]_vars

\* The step is a call of create_note_in_vault.
C3_IsCreate ==
    /\ hist'.calls = hist.calls + 1
    /\ call'.op = "create_note_in_vault"

\* vault/name.md of the call the step makes.
C3_NotePath == call'.vault \o <<"/">> \o call'.name \o <<".md">>

\* C3: create_note_in_vault is idempotent.  In any sequence of calls, a call
\* made when vault/name.md exists leaves every file as it was, content added
\* by an earlier append included, and returns the path that the call that
\* created the note returned; a call made when the note does not exist
\* leaves it containing exactly "# {name}".
C3_CreateNoteIdempotent ==
    [][C3_IsCreate =>
        /\ ret' = Returned(C3_NotePath)
        /\ <<call'.vault, call'.name>> \in DOMAIN hist.created =>
               ret'.value = hist.created[<<call'.vault, call'.name>>]
        /\ C3_NotePath \in DOMAIN fs => fs' = fs
        /\ C3_NotePath \notin DOMAIN fs =>
               /\ DOMAIN fs' = DOMAIN fs \cup {C3_NotePath}
               /\ fs'[C3_NotePath] = File(<<"# ">> \o call'.name)
               /\ \A q \in DOMAIN fs : fs'[q] = fs[q]]_vars

\* create_note_in_vault was called again on a note that it created earlier
\* and that an append has extended since: the appended content is there.
C3_Witness ==
    /\ call.op = "create_note_in_vault"
    /\ <<call.vault, call.name>> \in DOMAIN hist.created
    /\ ret = Returned(hist.created[<<call.vault, call.name>>])
    /\ fs[ret.value] = File(<<"# ">> \o call.name \o <<"\n", "x">>)

\* The step is a call of append_to_note_in_vault with the empty file.
C4_IsAppendDaily ==
    /\ hist'.calls = hist.calls + 1
    /\ call'.op = "append_to_note_in_vault"
    /\ call'.file = <<>>

\* resolve(vault).path at the time of the call.
C4_DailyPath == get_daily_path(call'.vault, cfg, DOMAIN fs).value.path

\* C4: for every vault path, absolute or relative, and every content,
\* append_to_note_in_vault(vault, "", content) writes to exactly the file at
\* get_daily_path(vault).path: afterwards that file holds what it held before
\* (nothing when it was absent), a line separator and content, and no other
\* file is created or modified.
C4_AppendWritesDailyNote ==
    [][C4_IsAppendDaily =>
        /\ DOMAIN fs' = DOMAIN fs \cup {C4_DailyPath}
        /\ fs'[C4_DailyPath] =
               File((IF C4_DailyPath \in DOMAIN fs
                     THEN fs[C4_DailyPath].content ELSE <<>>)
                    \o <<"\n">> \o call'.content)
        /\ \A q \in DOMAIN fs \ {C4_DailyPath} : fs'[q] = fs[q]]_vars

\* With an absolute vault path the append reaches the daily note.
C4_HoldsForAbsoluteVault ==
    [][(C4_IsAppendDaily /\ Head(call'.vault) = "/") =>
        /\ DOMAIN fs' = DOMAIN fs \cup {C4_DailyPath}
        /\ fs'[C4_DailyPath] =
               File((IF C4_DailyPath \in DOMAIN fs
                     THEN fs[C4_DailyPath].content ELSE <<>>)
                    \o <<"\n">> \o call'.content)
        /\ \A q \in DOMAIN fs \ {C4_DailyPath} : fs'[q] = fs[q]]_vars

----------------------------------------------------------------------------
(* VaultScanner: find_tag_in_vault and find_string_in_vault *)

CONTEXT_SIZE == 10

\* str.lower on one atom and on a string.
LowerAtom(c) ==
    CASE c = "T" -> "t"
      [] c = "X" -> "x"
      [] OTHER   -> c

Lower(s) == [i \in 1..Len(s) |-> LowerAtom(s[i])]

\* A regular file of the vault: its lines, and whether it may be read.
ScanFile(lines, readable) ==
    [kind |-> "file", content |-> lines, readable |-> readable]

ScanDir == [kind |-> "dir", content |-> <<>>, readable |-> TRUE]

\* Note(name, path, description)
Note(name, path, description) ==
    [name |-> name, path |-> path, description |-> description]

\* The context of a line that holds search: left, sep, right being
\* line.lower().partition(search), left[CONTEXT_SIZE:] + sep +
\* right[:CONTEXT_SIZE].
ContextOf(line, search) ==
    LET low == Lower(line)
        at == Find(low, search)
        left == SubSeq(low, 1, at - 1)
        right == DropFirst(low, at + Len(search) - 1)
    IN DropFirst(left, CONTEXT_SIZE) \o search \o TakeFirst(right, CONTEXT_SIZE)

\* The loop over the lines of an open file: "" with the context of the first
\* line that holds search, "none" when no line does.  partition raises
\* ValueError on an empty separator, so the first line read raises when
\* search is empty.
ReadLines(lines, search) ==
    LET hits == {k \in 1..Len(lines) : Find(Lower(lines[k]), search) # 0}
    IN IF lines # <<>> /\ search = <<>>
       THEN [raised |-> "ValueError", found |-> FALSE, context |-> <<>>]
       ELSE IF hits = {}
       THEN [raised |-> "", found |-> FALSE, context |-> <<>>]
       ELSE LET k == CHOOSE x \in hits : \A y \in hits : x <= y
            IN [raised |-> "", found |-> TRUE,
                context |-> ContextOf(lines[k], search)]

\* Why open(file, "r") raises, "" when it does not.
ReadError(files, file) ==
    IF file \notin DOMAIN files THEN "FileNotFoundError"
    ELSE IF files[file].kind = "dir" THEN "IsADirectoryError"
    ELSE IF ~files[file].readable THEN "PermissionError"
    ELSE ""

\* glob.glob(os.path.join(vault, "**", "*.md"), recursive=True): the paths
\* under the vault whose name ends in ".md", directories included.
GlobMarkdown(files, vault) ==
    {q \in DOMAIN files :
        StartsWith(q, vault \o <<"/">>) /\ EndsWith(q, <<".md">>)}

\* The orders in which a set may be enumerated.
Orders(S) ==
    {o \in [1..Cardinality(S) -> S] : \A i, j \in DOMAIN o : i # j => o[i] # o[j]}

\* The query of find_tag_in_vault after "search.lower()" and the "#" prefix.
TagQuery(search) ==
    IF StartsWith(Lower(search), <<"#">>) THEN Lower(search)
    ELSE <<"#">> \o Lower(search)

----------------------------------------------------------------------------
(* SpecScan: a tag scan or a content scan of a vault, file by file, while  *)
(* an external writer removes files or makes them unreadable               *)

ScanVault == <<"v">>

\* n copies of atom c.
Pad(c, n) == [i \in 1..n |-> c]

\* Contents of a markdown file: no line; one line with a tag in its middle;
\* a line without a tag and then a line with more than CONTEXT_SIZE
\* characters on either side of the tag.
ScanContents ==
    {<<>>,
     <<<<"x", "y", " ", "#", "T", " ", "y", "\n">>>>,
     <<<<"y", "\n">>,
       Pad("x", CONTEXT_SIZE + 1) \o <<"#", "t">> \o Pad("y", CONTEXT_SIZE + 1)
           \o <<"\n">>>>}

ScanQueries == {<<>>, <<"t">>, <<"#", "T">>, <<"y">>}

ScanPathA == <<"v", "/", "a", ".md">>
ScanPathB == <<"v", "/", "b", ".md">>
ScanPathD == <<"v", "/", "d", ".md">>

\* The vault holds note a, may hold note b, and may hold a directory whose
\* name ends in ".md".
ScanFileSystems ==
    {[q \in {ScanPathA} \cup DOMAIN b \cup d |->
         IF q = ScanPathA THEN ScanFile(a, TRUE)
         ELSE IF q \in DOMAIN b THEN b[q] ELSE ScanDir] :
        a \in ScanContents,
        b \in {[q \in {} |-> ScanDir]}
                  \cup {[q \in {ScanPathB} |-> ScanFile(c, TRUE)] : c \in ScanContents},
        d \in {{}, {ScanPathD}}}

NoScan == [files |-> <<>>, i |-> 0, search |-> <<>>, suggestions |-> <<>>]

InitScan ==
    /\ pc = "ready"
    /\ call \in [op : {"find_tag_in_vault", "find_string_in_vault"},
                 vault : {ScanVault}, search : ScanQueries]
    /\ ret = Returned(<<>>)
    /\ cfg = Unused
    /\ fs \in ScanFileSystems
    /\ scan = NoScan
    /\ hist = Unused

\* The scan moves on to the file after the current one, or returns.
ScanAdvance(suggestions) ==
    /\ scan' = [scan EXCEPT !.i = scan.i + 1, !.suggestions = suggestions]
    /\ IF scan.i + 1 > Len(scan.files)
       THEN pc' = "done" /\ ret' = Returned(suggestions)
       ELSE pc' = "check" /\ ret' = ret

\* find_tag_in_vault up to its loop: the files are enumerated, an empty
\* query returns [], the query is lowered and prefixed with "#".
FindTagStart ==
    /\ pc = "ready"
    /\ call.op = "find_tag_in_vault"
    /\ \E files \in Orders(GlobMarkdown(fs, call.vault)) :
        IF call.search = <<>>
        THEN /\ pc' = "done"
             /\ ret' = Returned(<<>>)
             /\ scan' = [scan EXCEPT !.files = files]
        ELSE /\ scan' = [files |-> files, i |-> 1,
                         search |-> TagQuery(call.search), suggestions |-> <<>>]
             /\ IF files = <<>>
                THEN pc' = "done" /\ ret' = Returned(<<>>)
                ELSE pc' = "check" /\ ret' = ret
    /\ UNCHANGED <<call, cfg, fs, hist>>

\* find_string_in_vault up to its loop: the files are enumerated and the
\* query is lowered.
FindStringStart ==
    /\ pc = "ready"
    /\ call.op = "find_string_in_vault"
    /\ \E files \in Orders(GlobMarkdown(fs, call.vault)) :
        /\ scan' = [files |-> files, i |-> 1,
                    search |-> Lower(call.search), suggestions |-> <<>>]
        /\ IF files = <<>>
           THEN pc' = "done" /\ ret' = Returned(<<>>)
           ELSE pc' = "check" /\ ret' = ret
    /\ UNCHANGED <<call, cfg, fs, hist>>

\* "if os.path.isfile(file) and search is not None" for the current file.
ScanCheck ==
    /\ pc = "check"
    /\ IF IsFile(fs, scan.files[scan.i])
       THEN pc' = "open" /\ UNCHANGED <<ret, scan>>
       ELSE ScanAdvance(scan.suggestions)
    /\ UNCHANGED <<call, cfg, fs, hist>>

\* "with open(file, "r") as f" and the loop over its lines: an exception of
\* open or of partition leaves the scan; the first line that holds the query
\* adds a Note.
ScanOpen ==
    /\ pc = "open"
    /\ LET file == scan.files[scan.i]
           read == ReadLines(fs[file].content, scan.search)
       IN IF ReadError(fs, file) # ""
          THEN pc' = "done" /\ ret' = Raised(ReadError(fs, file)) /\ scan' = scan
          ELSE IF read.raised # ""
          THEN pc' = "done" /\ ret' = Raised(read.raised) /\ scan' = scan
          ELSE IF read.found
          THEN ScanAdvance(Append(scan.suggestions,
                   Note(get_name_from_path(file, TRUE, call.vault), file,
                        read.context)))
          ELSE ScanAdvance(scan.suggestions)
    /\ UNCHANGED <<call, cfg, fs, hist>>

\* An external writer removes a file of the vault during the scan.
ExternalRemove ==
    /\ pc \in {"check", "open"}
    /\ \E q \in DOMAIN fs :
        /\ fs[q].kind = "file"
        /\ fs' = [r \in DOMAIN fs \ {q} |-> fs[r]]
    /\ UNCHANGED <<pc, call, ret, cfg, scan, hist>>

\* An external writer takes the read permission of a file during the scan.
ExternalChmod ==
    /\ pc \in {"check", "open"}
    /\ \E q \in DOMAIN fs :
        /\ fs[q].kind = "file"
        /\ fs[q].readable
        /\ fs' = [fs EXCEPT ![q].readable = FALSE]
    /\ UNCHANGED <<pc, call, ret, cfg, scan, hist>>

NextScan ==
    \/ FindTagStart
    \/ FindStringStart
    \/ ScanCheck
    \/ ScanOpen
    \/ ExternalRemove
    \/ ExternalChmod

SpecScan == InitScan /\ [][NextScan]_vars

\* The first line of a file that holds the query, 0 when none does.
C_FirstHit(lines, search) ==
    LET hits == {k \in 1..Len(lines) : Find(Lower(lines[k]), search) # 0}
    IN IF hits = {} THEN 0 ELSE CHOOSE k \in hits : \A j \in hits : k <= j

\* C5: a tag or content scan never aborts because of one file.  When an
\* external writer removes an enumerated file or makes it unreadable at any
\* point of the scan, between the existence check and the open included, the
\* scan skips the file and returns the hits of every other enumerated file.
C5_ScanSkipsLostFile ==
    pc = "done" =>
        /\ ret.raised \notin {"FileNotFoundError", "PermissionError"}
        /\ (ret.raised = "" /\ scan.search # <<>>) =>
               \A k \in 1..Len(scan.files) :
                   (/\ ReadError(fs, scan.files[k]) = ""
                    /\ C_FirstHit(fs[scan.files[k]].content, scan.search) # 0)
                   => \E n \in 1..Len(ret.value) :
                          ret.value[n].path = scan.files[k]

\* The window C8 describes: the up to 10 characters before the match,
\* the match, the up to 10 characters after it.
C8_Window(line, search) ==
    LET low == Lower(line)
        at == Find(low, search)
        before == SubSeq(low, 1, at - 1)
        after == SubSeq(low, at + Len(search), Len(low))
    IN TakeLast(before, 10) \o search \o TakeFirst(after, 10)

\* C8: each Note of a tag or content scan describes the first matching line
\* of its file by the up to 10 characters before the match, the match and
\* the up to 10 characters after it; a file gives at most one Note.
C8_ContextWindow ==
    /\ \A n \in 1..Len(scan.suggestions) :
        LET note == scan.suggestions[n]
        IN note.path \in DOMAIN fs =>
            LET lines == fs[note.path].content
                k == C_FirstHit(lines, scan.search)
            IN /\ k # 0
               /\ note.description = C8_Window(lines[k], scan.search)
    /\ \A n, m \in 1..Len(scan.suggestions) :
        n # m => scan.suggestions[n].path # scan.suggestions[m].path

\* C10: with an empty query the tag scan returns [] for every vault, and the
\* content scan does not stop short: it scans as for any other query and
\* returns its list of Notes for every vault.
C10_EmptyQueryAsymmetry ==
    (pc = "done" /\ call.search = <<>>) =>
        /\ call.op = "find_tag_in_vault" => ret = Returned(<<>>)
        /\ call.op = "find_string_in_vault" => ret.raised = ""

\* The first half of C10: the tag scan with an empty query returns [].
C10_EmptyTagQueryReturnsNothing ==
    (pc = "done" /\ call.search = <<>> /\ call.op = "find_tag_in_vault") =>
        ret = Returned(<<>>) /\ scan.i = 0

====
